---- MODULE Spec2Model ----
(***************************************************************************)
(* Model of src/main.rs of m5atom-mcp3424-ble-receiver: the conversion     *)
(* function calc_shunt_current, the line parser parse_data, the sink       *)
(* write_data, the drivers uart_mode and ble_mode, and main.               *)
(*                                                                         *)
(* Text is a sequence of one-character strings.  An f64 is modelled by the *)
(* a binary floating-point number <<m, e>> with a significand of           *)
(* MantissaBits bits, and every arithmetic operation rounds its exact      *)
(* result to the nearest such number, ties to even (an f64 has 53 bits;    *)
(* the exponent range is not limited here).  A string built                *)
(* by format!("{}, {}", a, b) and push_str(", {}") is modelled by the      *)
(* sequence of the numbers it holds, in the order they are printed.        *)
(* Timestamps (Local::now()) are left out of console lines and log lines,  *)
(* and so are the progress messages ble_mode prints while it scans.        *)
(***************************************************************************)
EXTENDS Integers, Sequences, FiniteSets, TLC

\* ------------------------------------------------------------------ bounds
MaxFields == 6
MaxRecords == 2
MaxAdapters == 2
MaxPeripherals == 2
MaxDebugCode == 12
MantissaBits == 7

\* ---------------------------------------------------------- f64 numbers
\* A number is <<m, e>>, standing for m * 2^e: m = 0 (with e = 0), or
\* SigLow <= |m| < SigHigh.  Every number has one such pair.
\*
\* The operators below bind their arguments in a singleton set ("x \in {x0}")
\* before they use them, so that TLC computes each argument once.
Abs(n) == IF n < 0 THEN -n ELSE n

Pow2(n) == 2 ^ n

SigLow == Pow2(MantissaBits - 1)
SigHigh == Pow2(MantissaBits)

\* The element of a set of one element.
Only(S) == CHOOSE x \in S : TRUE

\* How many low bits n >= 0 has beyond a significand.
RECURSIVE ExtraBits(_)
ExtraBits(n0) ==
    Only({ IF n < SigHigh THEN 0 ELSE 1 + ExtraBits(n \div 2) : n \in {n0} })

\* n * 2^e for 0 < n < SigHigh, as a number.
RECURSIVE Widen(_, _)
Widen(n0, e0) ==
    Only({ IF n < SigLow THEN Widen(2 * n, e - 1) ELSE <<n, e>> : n \in {n0}, e \in {e0} })

\* n * 2^e (n > 0) rounded to the nearest number, ties to the even
\* significand: the s extra bits of n are cut off, and the significand goes
\* up by one when they are more than half, or half with an odd significand.
RoundPos(n0, e0) ==
    Only({ IF n < SigHigh THEN Widen(n, e)
           ELSE Only({ Only({ IF m = SigHigh THEN <<SigLow, e + s + 1>> ELSE <<m, e + s>> :
                              m \in { IF n % Pow2(s) > Pow2(s - 1)
                                         \/ (n % Pow2(s) = Pow2(s - 1) /\ (n \div Pow2(s)) % 2 = 1)
                                      THEN (n \div Pow2(s)) + 1
                                      ELSE n \div Pow2(s) } }) :
                       s \in {ExtraBits(n)} }) :
           n \in {n0}, e \in {e0} })

FNeg(a0) == Only({ <<-a[1], a[2]>> : a \in {a0} })

\* n * 2^e rounded, for any integer n.
Round(n0, e0) ==
    Only({ IF n = 0 THEN <<0, 0>>
           ELSE IF n < 0 THEN FNeg(RoundPos(-n, e)) ELSE RoundPos(n, e) :
           n \in {n0}, e \in {e0} })

\* The f64 of a whole number (as f64 or a whole decimal literal).
F64(n) == Round(n, 0)

\* f64 * : the exact product, rounded.
FMul(a0, b0) == Only({ Round(a[1] * b[1], a[2] + b[2]) : a \in {a0}, b \in {b0} })

\* f64 / (b # 0): the quotient of the significands to MantissaBits + 1 bits or
\* more, with one more bit that says whether anything is left, rounded.
FDiv(a0, b0) ==
    Only({ IF a[1] = 0 THEN <<0, 0>>
           ELSE Only({ IF (a[1] < 0) # (b[1] < 0) THEN FNeg(v) ELSE v :
                       v \in { RoundPos(2 * ((Abs(a[1]) * Pow2(MantissaBits + 1)) \div Abs(b[1]))
                                          + (IF (Abs(a[1]) * Pow2(MantissaBits + 1)) % Abs(b[1]) = 0
                                             THEN 0 ELSE 1),
                                        a[2] - b[2] - MantissaBits - 2) } }) :
           a \in {a0}, b \in {b0} })

\* f64 + and -: the exact sum on the smaller exponent, rounded.  (The
\* exponents of the model's operands are never far apart.)
FAdd(a0, b0) ==
    Only({ IF a[1] = 0 THEN b
           ELSE IF b[1] = 0 THEN a
           ELSE Only({ Round(a[1] * Pow2(a[2] - e) + b[1] * Pow2(b[2] - e), e) :
                       e \in { IF a[2] < b[2] THEN a[2] ELSE b[2] } }) :
           a \in {a0}, b \in {b0} })
FSub(a, b) == FAdd(a, FNeg(b))

\* A decimal literal whose value is n/d, read as f64.
Dec(n, d) == FDiv(F64(n), F64(d))

\* ------------------------------------------------------------------- text
DigitChars == <<"0", "1", "2", "3", "4", "5", "6", "7", "8", "9">>
IsDigit(c) == \E i \in 1..10 : DigitChars[i] = c
DigitVal(c) == (CHOOSE i \in 1..10 : DigitChars[i] = c) - 1

\* char::is_whitespace, on the characters of the model
IsWhite(c) == c \in {" ", "\n", "\r", "\t"}

\* An invalid UTF-8 byte, as one character of the text it spoils.
BadByte == "\\xFF"

\* str::split(','): always at least one field; "" gives [""].
RECURSIVE Split(_, _)
Split(s, sep) ==
    IF \A i \in 1..Len(s) : s[i] # sep
    THEN <<s>>
    ELSE LET k == CHOOSE i \in 1..Len(s) :
                     s[i] = sep /\ \A j \in 1..(i - 1) : s[j] # sep
         IN  <<SubSeq(s, 1, k - 1)>> \o Split(SubSeq(s, k + 1, Len(s)), sep)

\* str::trim(): leading and trailing whitespace removed.
RECURSIVE TrimStart(_)
TrimStart(s) ==
    IF s # <<>> /\ IsWhite(Head(s)) THEN TrimStart(Tail(s)) ELSE s

RECURSIVE TrimEnd(_)
TrimEnd(s) ==
    IF s # <<>> /\ IsWhite(s[Len(s)]) THEN TrimEnd(SubSeq(s, 1, Len(s) - 1)) ELSE s

Trim(s) == TrimEnd(TrimStart(s))

RECURSIVE DigitsVal(_)
DigitsVal(s) ==
    IF s = <<>> THEN 0 ELSE 10 * DigitsVal(SubSeq(s, 1, Len(s) - 1)) + DigitVal(s[Len(s)])

\* str::parse::<f64>() on the characters of the model (digits, letters,
\* blanks, commas): a non-empty run of decimal digits parses, to its value;
\* everything else is Err.  Signs, '.', exponents, "inf" and "nan" are not in
\* the model's alphabet.
ParseF64(s) ==
    IF s # <<>> /\ \A i \in 1..Len(s) : IsDigit(s[i])
    THEN [ok |-> TRUE, val |-> F64(DigitsVal(s))]
    ELSE [ok |-> FALSE, val |-> F64(0)]

\* Display of a non-negative whole f64 ("{}"): its decimal digits.
RECURSIVE FormatNat(_)
FormatNat(n) ==
    IF n < 10 THEN <<DigitChars[n + 1]>>
    ELSE FormatNat(n \div 10) \o <<DigitChars[(n % 10) + 1]>>

\* String::contains(&str): substring search.
Contains(s, sub) ==
    \E i \in 1..(Len(s) - Len(sub) + 1) : SubSeq(s, i, i + Len(sub) - 1) = sub

\* ---------------------------------------------------------- configuration
\* The analog-model part of Opts: each value is the f64 its decimal text
\* reads as.
AnalogConfigs ==
    { [adc_bit |-> 3, shunt_registance |-> F64(2), refference_voltage |-> Dec(1, 5),
       gain_amp |-> F64(10), upper_resistance |-> F64(1), lower_resistance |-> F64(2),
       adc_max_voltage |-> Dec(3, 2)] }

DebugCodes == {0, 5, MaxDebugCode}

\* The analog configurations calc_shunt_current is applied to on its own:
\* several values of each of the seven options.
ConvConfigs ==
    { [adc_bit |-> nb, shunt_registance |-> sr, refference_voltage |-> vr,
       gain_amp |-> ga, upper_resistance |-> ru, lower_resistance |-> rl,
       adc_max_voltage |-> vm] :
        nb \in {2, 3, 4}, sr \in {F64(1), F64(2)}, vr \in {Dec(1, 5), F64(1)},
        ga \in {F64(4), F64(10)}, ru \in {F64(1), F64(3)},
        rl \in {F64(2), F64(3)}, vm \in {Dec(3, 2), F64(2)} }

Some(v) == [some |-> TRUE, val |-> v]
NoVal == [some |-> FALSE, val |-> 0]

\* struct Opts, without uart_baud (only handed to the serial library).
AllOpts ==
    { [calc |-> c, mode_ble |-> mb, uart_interface |-> ui, output |-> od,
       verbose |-> vb, is_enable_4ch |-> f4, cfg |-> a] :
        c \in {NoVal} \cup {Some(d) : d \in DebugCodes},
        mb \in BOOLEAN, ui \in BOOLEAN, od \in BOOLEAN,
        vb \in BOOLEAN, f4 \in BOOLEAN, a \in AnalogConfigs }

\* The command lines of the model: every combination of the flags for a
\* debug run and for a serial run; a BLE run, which never reads -i, is
\* started without it.
OptsSet == {o \in AllOpts : (o.mode_ble /\ ~o.calc.some) => ~o.uart_interface}

\* ------------------------------------------------------ console and log
\* A line of standard output or standard error: <<what, numbers printed>>.
Line(kind, nums) == <<kind, nums>>

\* ---------------------------------------------------- calc_shunt_current
\* A plausible slip: the resolution taken as 2^(bit-1), without the "- 1".
calc_shunt_current_fullscale(adc_code, o) ==
    LET v_adc_max == o.cfg.adc_max_voltage
        r_upper == o.cfg.upper_resistance
        r_lower == o.cfg.lower_resistance
        v_ref == o.cfg.refference_voltage
        g_amp == o.cfg.gain_amp
        bit == o.cfg.adc_bit
        shunt == FMul(o.cfg.shunt_registance, F64(1000))
        bit_scale == F64(Pow2(bit - 1))
        v_adc == FDiv(FMul(v_adc_max, adc_code), bit_scale)
        v_o_amp == FMul(v_adc, FDiv(FAdd(r_lower, r_upper), r_lower))
        v_i_amp == FDiv(FSub(v_o_amp, v_ref), g_amp)
        i_sr == FDiv(v_i_amp, shunt)
    IN  [i_sr |-> i_sr,
         out |-> <<Line("adc =>", <<adc_code>>), Line("ch1 =>", <<i_sr>>)>>]

\* The value returned and the two lines it prints on standard output.
calc_shunt_current(adc_code, o) ==
    LET v_adc_max == o.cfg.adc_max_voltage
        r_upper == o.cfg.upper_resistance
        r_lower == o.cfg.lower_resistance
        v_ref == o.cfg.refference_voltage
        g_amp == o.cfg.gain_amp
        bit == o.cfg.adc_bit
        shunt == FMul(o.cfg.shunt_registance, F64(1000))
        bit_scale == FSub(F64(Pow2(bit - 1)), F64(1))
        v_adc == FDiv(FMul(v_adc_max, adc_code), bit_scale)
        v_o_amp == FMul(v_adc, FDiv(FAdd(r_lower, r_upper), r_lower))
        v_i_amp == FDiv(FSub(v_o_amp, v_ref), g_amp)
        i_sr == FDiv(v_i_amp, shunt)
    IN  [i_sr |-> i_sr,
         out |-> <<Line("adc =>", <<adc_code>>), Line("ch1 =>", <<i_sr>>)>>]

\* ------------------------------------------------------------- parse_data
\* The state of one call of parse_data: whether an unwrap() panicked, the
\* result string so far, the lines printed, and the ADC codes handed to
\* calc_shunt_current.
ParseStart ==
    [panicked |-> FALSE, str_result |-> <<>>, out |-> <<>>, err |-> <<>>, calcs |-> <<>>]

\* str_arr[i].trim().parse(): the Result that unwrap() is applied to.
ParseFieldLenient(field) ==
    LET r == ParseF64(Trim(field))
    IN  [ok |-> TRUE, val |-> IF r.ok THEN r.val ELSE F64(0)]

ParseField(field) == ParseF64(Trim(field))

\* One channel: parse the field, convert, and put the value in the result:
\* format!("{}, {}", adc_code, i_sr) for the first channel, push_str(", {}")
\* for the others.  Nothing of a call runs after a panic.
Channel(st, field, first, o) ==
    IF st.panicked THEN st
    ELSE LET r == ParseField(field)
         IN  IF ~r.ok THEN [st EXCEPT !.panicked = TRUE]
             ELSE LET c == calc_shunt_current(r.val, o)
                  IN  [st EXCEPT
                         !.str_result = IF first THEN <<r.val, c.i_sr>>
                                        ELSE Append(@, c.i_sr),
                         !.out = @ \o c.out,
                         !.calcs = Append(@, r.val)]

\* A plausible slip: the length test off by one, and the tag taken as channel 1.
parse_ch1_offbyone(str_arr, o) ==
    IF Len(str_arr) > 0
    THEN Channel(ParseStart, str_arr[1], TRUE, o)
    ELSE [ParseStart EXCEPT !.err = <<Line("index error", <<>>)>>]

\* if len > 1 { ... } else { eprintln!("index error") }
parse_ch1(str_arr, o) ==
    IF Len(str_arr) > 1
    THEN Channel(ParseStart, str_arr[2], TRUE, o)
    ELSE [ParseStart EXCEPT !.err = <<Line("index error", <<>>)>>]

\* A plausible slip: channels 3 and 4 exchanged.
parse_ch234_swapped(st, str_arr, o) ==
    IF st.panicked \/ ~o.is_enable_4ch THEN st
    ELSE IF Len(str_arr) > 4
         THEN Channel(Channel(Channel(st, str_arr[3], FALSE, o),
                              str_arr[5], FALSE, o),
                      str_arr[4], FALSE, o)
         ELSE [st EXCEPT !.out = Append(@, Line("ch2~4 val error", <<>>))]

\* A plausible slip: the short record of 4-channel mode made a hard failure.
parse_ch234_strict(st, str_arr, o) ==
    IF st.panicked \/ ~o.is_enable_4ch THEN st
    ELSE IF Len(str_arr) > 4
         THEN Channel(Channel(Channel(st, str_arr[3], FALSE, o),
                              str_arr[4], FALSE, o),
                      str_arr[5], FALSE, o)
         ELSE [st EXCEPT !.panicked = TRUE]

\* if opts.is_enable_4ch { if len > 4 { ch2; ch3; ch4 } else { println } }
parse_ch234(st, str_arr, o) ==
    IF st.panicked \/ ~o.is_enable_4ch THEN st
    ELSE IF Len(str_arr) > 4
         THEN Channel(Channel(Channel(st, str_arr[3], FALSE, o),
                              str_arr[4], FALSE, o),
                      str_arr[5], FALSE, o)
         ELSE [st EXCEPT !.out = Append(@, Line("ch2~4 val error", <<>>))]

parse_data(s, o) ==
    LET str_arr == Split(s, ",")
    IN  parse_ch234(parse_ch1(str_arr, o), str_arr, o)

\* ------------------------------------------------------------- write_data
\* Option<BufWriter<File>>: the entries written but not yet flushed.
NoWriter == [some |-> FALSE, buf |-> <<>>]
\* The log file on disk.
NoFile == [exists |-> FALSE, lines |-> <<>>]

\* BufWriter::write_all: the bytes go to the buffer.
BufWriteAll(w, entry) == [w EXCEPT !.buf = Append(@, entry)]
\* BufWriter::flush: the buffer goes to the file.
FlushedFile(w, f) == [f EXCEPT !.lines = @ \o w.buf]
FlushedWriter(w) == [w EXCEPT !.buf = <<>>]

\* A plausible slip: the flush left out.
write_data_noflush(s, o, w, f) ==
    [out |-> IF o.verbose THEN <<Line("sink", s)>> ELSE <<>>,
     writer |-> IF w.some THEN BufWriteAll(w, s) ELSE w,
     file |-> f]

\* The console line, the writer and the file after one call.
write_data(s, o, w, f) ==
    [out |-> IF o.verbose THEN <<Line("sink", s)>> ELSE <<>>,
     writer |-> IF w.some THEN FlushedWriter(BufWriteAll(w, s)) ELSE w,
     file |-> IF w.some THEN FlushedFile(BufWriteAll(w, s), f) ELSE f]

\* ---------------------------------------------------------------- inputs
\* The records of the wire format "<tag>, <ch1_code>[, <ch2_code>, ...]":
\* Rec(n, b) has n fields, field 0 the tag "t", field i the code i, written
\* with a leading blank when i is odd; field b (if b > 0) is the letter "x".
RecField(i, b) ==
    (IF i % 2 = 1 THEN <<" ">> ELSE <<>>) \o (IF i = b THEN <<"x">> ELSE FormatNat(i))

RECURSIVE RecFrom(_, _, _)
RecFrom(i, n, b) ==
    IF i >= n THEN <<>> ELSE <<",">> \o RecField(i, b) \o RecFrom(i + 1, n, b)

Rec(n, b) == <<"t">> \o RecFrom(1, n, b)

\* Every record of up to MaxFields fields with at most one malformed field,
\* with and without the line end, the empty string and an empty code field.
ParseInputs ==
    { Rec(n, b) \o nl : n \in 1..MaxFields, b \in 0..(MaxFields - 1),
                        nl \in {<<>>, <<"\n">>} }
    \cup {<<>>, <<"t", ",">>}

\* The records the drivers are fed: a short one, one and four channels, a
\* malformed first code, a malformed third code.
SampleRecords == {Rec(1, 0), Rec(2, 0), Rec(2, 1), Rec(5, 0), Rec(5, 3)}

\* Notification payloads: the records, and one that is not UTF-8.
Payloads == SampleRecords \cup {<<"t", ",", BadByte>>}

\* Lines on the serial wire.
WireLines == {r \o <<"\n">> : r \in Payloads}

\* Where the bytes of a line may be cut into two arrivals.
CutPoints(l) == {k \in {1, Len(l) \div 2, Len(l) - 1} : 0 < k /\ k < Len(l)}

\* const PERIPHERAL_NAME_MATCH_FILTER
PERIPHERAL_NAME_MATCH_FILTER == <<"M", "5", "A", "t", "o", "m", "-", "M", "C", "P", "3", "4", "2", "4", " ", "B", "L", "E", " ", "S", "e", "n", "d", "e", "r">>

UnknownPeripheral == <<"U", "n", "k", "n", "o", "w", "n", " ", "P", "e", "r", "i", "p", "h", "e", "r", "a", "l">>

\* Option<String> local_name of a discovered peripheral.
NoName == [some |-> FALSE, val |-> <<>>]
AdvertisedNames ==
    { NoName,
      Some(<<"O", "t", "h", "e", "r", " ", "D", "e", "v", "i", "c", "e">>),
      Some(<<"M", "5", "A", "t", "o", "m", "-", "M", "C", "P", "3", "4", "2", "4">>),
      Some(PERIPHERAL_NAME_MATCH_FILTER),
      Some(<<"#">> \o PERIPHERAL_NAME_MATCH_FILTER \o <<"2">>) }

\* const NOTIFY_CHARACTERISTIC_UUID, and some other identifier.
NOTIFY_CHARACTERISTIC_UUID == "ae84d642-7f4b-11ec-a8a3-0242ac120002"
OtherUuid == "00002a00-0000-1000-8000-00805f9b34fb"

\* The characteristics a peripheral may expose: identifier and NOTIFY flag.
Characteristic == [uuid : {NOTIFY_CHARACTERISTIC_UUID, OtherUuid}, notify : BOOLEAN]
CharacteristicSets == SUBSET Characteristic

\* ------------------------------------------------------------------ state
VARIABLES
    opts,           \* the parsed command line (never assigned after start)
    pc,             \* where the process is; "exit0", "exit1", "panic", "done" are final
    str,            \* the argument of the latest call of parse_data
    str_result,     \* what that call returned
    stdout,         \* the lines printed on standard output
    stderr,         \* the lines printed on standard error
    conv_calls,     \* the ADC codes calc_shunt_current was called with
    parsed,         \* the records parse_data was called with
    emitted,        \* the strings write_data was called with
    writer,         \* main's Option<BufWriter<File>>
    logfile,        \* the log file on disk
    port,           \* the serial port: open or not, and the bytes received
    my_str,         \* read_line's String while a line is incomplete
    line_tail,      \* the bytes of a line the sender has not yet transmitted
    sent,           \* the lines the sender has started, in order
    adapters_left,  \* adapters of adapter_list not yet visited
    periphs_left,   \* peripherals of the current adapter not yet visited
    periph,         \* the peripheral being handled: its name, and is_connected
    ble_calls,      \* connect/discover/subscribe/disconnect issued on it
    characteristics, \* peripheral.characteristics(), until subscribe has used it
    connect_failed, \* whether a connect() of this run has returned an error
    stream,         \* notification_stream: payloads delivered and not yet taken
    arrived         \* every payload delivered to the stream, in arrival order

progVars == <<opts, pc, str, str_result, stdout, stderr, conv_calls, parsed, emitted,
              writer, logfile>>
uartVars == <<port, my_str, line_tail, sent>>
bleVars == <<adapters_left, periphs_left, periph, ble_calls, characteristics,
             connect_failed, stream, arrived>>
vars == <<opts, pc, str, str_result, stdout, stderr, conv_calls, parsed, emitted,
          writer, logfile, port, my_str, line_tail, sent,
          adapters_left, periphs_left, periph, ble_calls, characteristics,
          connect_failed, stream, arrived>>

NoPeriph == [name |-> <<>>, connected |-> FALSE]
NoCharacteristics == [some |-> FALSE, val |-> {}]

InitRest ==
    /\ str = <<>>
    /\ str_result = <<>>
    /\ stdout = <<>>
    /\ stderr = <<>>
    /\ conv_calls = <<>>
    /\ parsed = <<>>
    /\ emitted = <<>>
    /\ writer = NoWriter
    /\ logfile = NoFile
    /\ port = [open |-> FALSE, rx |-> <<>>]
    /\ my_str = <<>>
    /\ line_tail = <<>>
    /\ sent = <<>>
    /\ adapters_left = 0
    /\ periphs_left = 0
    /\ periph = NoPeriph
    /\ ble_calls = <<>>
    /\ characteristics = NoCharacteristics
    /\ connect_failed = FALSE
    /\ stream = <<>>
    /\ arrived = <<>>

\* The state when main has parsed the command line.
Init ==
    /\ opts \in OptsSet
    /\ pc = "main"
    /\ InitRest

Final == {"exit0", "exit1", "panic", "done"}

\* ------------------------------------------------- parse_data, then write_data
\* A plausible slip: the driver gives up at the first record without a result.
HandleStopOnEmpty(s, stay) ==
    \E r \in {parse_data(s, opts)} :
    \E w \in {write_data(r.str_result, opts, writer, logfile)} :
        /\ str' = s
        /\ parsed' = Append(parsed, s)
        /\ conv_calls' = conv_calls \o r.calcs
        /\ stderr' = stderr \o r.err
        /\ IF r.panicked \/ r.str_result = <<>>
           THEN /\ pc' = "panic"
                /\ stdout' = stdout \o r.out
                /\ UNCHANGED <<str_result, emitted, writer, logfile>>
           ELSE /\ pc' = stay
                /\ str_result' = r.str_result
                /\ stdout' = stdout \o r.out \o w.out
                /\ emitted' = Append(emitted, r.str_result)
                /\ writer' = w.writer
                /\ logfile' = w.file

\* write_data(parse_data(s, opts), opts, writer): the call both drivers make
\* for a record; the process stays at `stay` unless parse_data panics.  (r and
\* w are bound by \E over a singleton so that each is computed once.)
Handle(s, stay) ==
    \E r \in {parse_data(s, opts)} :
    \E w \in {write_data(r.str_result, opts, writer, logfile)} :
        /\ str' = s
        /\ parsed' = Append(parsed, s)
        /\ conv_calls' = conv_calls \o r.calcs
        /\ stderr' = stderr \o r.err
        /\ IF r.panicked
           THEN /\ pc' = "panic"
                /\ stdout' = stdout \o r.out
                /\ UNCHANGED <<str_result, emitted, writer, logfile>>
           ELSE /\ pc' = stay
                /\ str_result' = r.str_result
                /\ stdout' = stdout \o r.out \o w.out
                /\ emitted' = Append(emitted, r.str_result)
                /\ writer' = w.writer
                /\ logfile' = w.file

\* ------------------------------------------------------------------- main
\* A plausible slip: the debug branch without its exit.
MainDebugNoExit ==
    /\ pc = "main"
    /\ opts.calc.some
    /\ LET s == <<"d", "e", "b", "u", "g", ",", " ">> \o FormatNat(opts.calc.val)
           r == parse_data(s, opts)
       IN  /\ str' = s
           /\ parsed' = Append(parsed, s)
           /\ conv_calls' = conv_calls \o r.calcs
           /\ stderr' = stderr \o r.err
           /\ IF r.panicked
              THEN pc' = "panic" /\ stdout' = stdout \o r.out /\ UNCHANGED str_result
              ELSE /\ pc' = IF opts.mode_ble THEN "ble_init" ELSE "uart_init"
                   /\ str_result' = r.str_result
                   /\ stdout' = stdout \o r.out \o <<Line("shunt current:", r.str_result)>>
    /\ UNCHANGED <<opts, emitted, writer, logfile, uartVars, bleVars>>

\* if let Some(c) = &opts.calc { parse_data("debug, c"); println; exit(0) }
MainDebug ==
    /\ pc = "main"
    /\ opts.calc.some
    /\ LET s == <<"d", "e", "b", "u", "g", ",", " ">> \o FormatNat(opts.calc.val)
           r == parse_data(s, opts)
       IN  /\ str' = s
           /\ parsed' = Append(parsed, s)
           /\ conv_calls' = conv_calls \o r.calcs
           /\ stderr' = stderr \o r.err
           /\ IF r.panicked
              THEN pc' = "panic" /\ stdout' = stdout \o r.out /\ UNCHANGED str_result
              ELSE /\ pc' = "exit0"
                   /\ str_result' = r.str_result
                   /\ stdout' = stdout \o r.out \o <<Line("shunt current:", r.str_result)>>
    /\ UNCHANGED <<opts, emitted, writer, logfile, uartVars, bleVars>>

\* The rest of main up to the call of a driver: with an output directory,
\* create_dir_all (an error is returned) and File::create (an error panics).
MainStart ==
    /\ pc = "main"
    /\ ~opts.calc.some
    /\ \E fs \in IF opts.output THEN {"ok", "dir_err", "file_err"} ELSE {"none"} :
          /\ pc' = CASE fs = "dir_err" -> "exit1"
                     [] fs = "file_err" -> "panic"
                     [] OTHER -> IF opts.mode_ble THEN "ble_init" ELSE "uart_init"
          /\ writer' = IF fs = "ok" THEN [some |-> TRUE, buf |-> <<>>] ELSE writer
          /\ logfile' = IF fs = "ok" THEN [exists |-> TRUE, lines |-> <<>>] ELSE logfile
    /\ UNCHANGED <<opts, str, str_result, stdout, stderr, conv_calls, parsed, emitted,
                   uartVars, bleVars>>

\* -------------------------------------------------------------- uart_mode
\* No -i option: the available ports are listed and the process exits with
\* status 0; available_ports() failing panics (expect).
UartListPorts ==
    /\ pc = "uart_init"
    /\ ~opts.uart_interface
    /\ \E ok \in BOOLEAN :
          /\ pc' = IF ok THEN "exit0" ELSE "panic"
          /\ stdout' = stdout \o <<Line("<-i> option is required.", <<>>)>>
                       \o (IF ok THEN <<Line("Available ports: ", <<>>)>> ELSE <<>>)
    /\ UNCHANGED <<opts, str, str_result, stderr, conv_calls, parsed, emitted, writer,
                   logfile, uartVars, bleVars>>

\* serialport::new(com, baud).timeout(30 ms).open().expect(..)
UartOpen ==
    /\ pc = "uart_init"
    /\ opts.uart_interface
    /\ \E ok \in BOOLEAN :
          /\ pc' = IF ok THEN "uart_loop" ELSE "panic"
          /\ port' = [port EXCEPT !.open = ok]
    /\ UNCHANGED <<opts, str, str_result, stdout, stderr, conv_calls, parsed, emitted,
                   writer, logfile, my_str, line_tail, sent, bleVars>>

\* The sender transmits a line, whole or only up to a cut point.
DeviceSend ==
    /\ pc = "uart_loop"
    /\ line_tail = <<>>
    /\ Len(sent) < MaxRecords
    /\ \E l \in WireLines : \E k \in CutPoints(l) \cup {Len(l)} :
          /\ port' = [port EXCEPT !.rx = @ \o SubSeq(l, 1, k)]
          /\ line_tail' = SubSeq(l, k + 1, Len(l))
          /\ sent' = Append(sent, l)
    /\ UNCHANGED <<progVars, my_str, bleVars>>

\* The sender transmits the rest of the line it had begun.
DeviceSendTail ==
    /\ pc = "uart_loop"
    /\ line_tail # <<>>
    /\ port' = [port EXCEPT !.rx = @ \o line_tail]
    /\ line_tail' = <<>>
    /\ UNCHANGED <<progVars, my_str, sent, bleVars>>

HasNewline(b) == \E i \in 1..Len(b) : b[i] = "\n"
FirstNewline(b) == CHOOSE i \in 1..Len(b) : b[i] = "\n" /\ \A j \in 1..(i - 1) : b[j] # "\n"

\* One read of the port inside read_line.  The BufReader made for this
\* iteration takes every byte the port has.  Without a line end the bytes go
\* to my_str and read_line reads again.  With one, the line is my_str and the
\* bytes up to it; the bytes after it stay in the BufReader, which the
\* iteration drops.  read_line returns Err for text that is not UTF-8, and
\* unwrap() panics; else the line goes through parse_data and write_data.
UartRead ==
    /\ pc = "uart_loop"
    /\ port.rx # <<>>
    /\ port' = [port EXCEPT !.rx = <<>>]
    /\ IF ~HasNewline(port.rx)
       THEN /\ my_str' = my_str \o port.rx
            /\ UNCHANGED progVars
       ELSE LET l == my_str \o SubSeq(port.rx, 1, FirstNewline(port.rx))
            IN  /\ my_str' = <<>>
                /\ IF \E i \in 1..Len(l) : l[i] = BadByte
                   THEN pc' = "panic"
                        /\ UNCHANGED <<str, str_result, stdout, stderr, conv_calls,
                                       parsed, emitted, writer, logfile>>
                   ELSE Handle(l, "uart_loop")
                /\ UNCHANGED opts
    /\ UNCHANGED <<line_tail, sent, bleVars>>

\* A plausible slip: the error of the read ignored, and the text read so far
\* handed on as a line.
UartTimeoutIgnored ==
    /\ pc = "uart_loop"
    /\ port.rx = <<>>
    /\ my_str' = <<>>
    /\ Handle(my_str, "uart_loop")
    /\ UNCHANGED <<opts, port, line_tail, sent, bleVars>>

\* A read that gets no byte within the timeout returns Err(TimedOut), and
\* unwrap() panics.
UartTimeout ==
    /\ pc = "uart_loop"
    /\ port.rx = <<>>
    /\ pc' = "panic"
    /\ UNCHANGED <<opts, str, str_result, stdout, stderr, conv_calls, parsed, emitted,
                   writer, logfile, uartVars, bleVars>>

\* --------------------------------------------------------------- ble_mode
outVars == <<str, str_result, conv_calls, parsed, emitted, writer, logfile>>

\* Manager::new().await? and manager.adapters().await?: an error is returned
\* to main.
BleInit ==
    /\ pc = "ble_init"
    /\ \/ /\ pc' = "exit1"
          /\ UNCHANGED adapters_left
       \/ \E n \in 0..MaxAdapters :
             /\ adapters_left' = n
             /\ pc' = "ble_adapter"
    /\ UNCHANGED <<opts, stdout, stderr, outVars, uartVars, periphs_left, periph, ble_calls,
                   characteristics, connect_failed, stream, arrived>>

\* The next adapter of 'adapter_loop: start_scan (expect), the 2 s sleep,
\* adapter.peripherals().await?.
BleScan ==
    /\ pc = "ble_adapter"
    /\ adapters_left > 0
    /\ adapters_left' = adapters_left - 1
    /\ \/ /\ pc' \in {"panic", "exit1"}
          /\ UNCHANGED periphs_left
       \/ \E n \in 0..MaxPeripherals :
             /\ periphs_left' = n
             /\ pc' = "ble_peripheral"
    /\ UNCHANGED <<opts, stdout, stderr, outVars, uartVars, periph, ble_calls,
                   characteristics, connect_failed, stream, arrived>>

\* 'adapter_loop has no adapter left: ble_mode returns Ok(()), and so does main.
BleReturn ==
    /\ pc = "ble_adapter"
    /\ adapters_left = 0
    /\ pc' = "done"
    /\ UNCHANGED <<opts, stdout, stderr, outVars, uartVars, bleVars>>

\* The peripherals of this adapter are exhausted: on to the next adapter.
BleNextAdapter ==
    /\ pc = "ble_peripheral"
    /\ periphs_left = 0
    /\ pc' = "ble_adapter"
    /\ UNCHANGED <<opts, stdout, stderr, outVars, uartVars, bleVars>>

\* local_name.unwrap_or("Unknown Peripheral")
LocalName(adv) == IF adv.some THEN adv.val ELSE UnknownPeripheral

\* A plausible slip: every named peripheral taken for the sender.
NameMatchesAny(local_name) == local_name # <<>>

\* local_name.contains(PERIPHERAL_NAME_MATCH_FILTER)
NameMatches(local_name) == Contains(local_name, PERIPHERAL_NAME_MATCH_FILTER)

\* The next peripheral of the list: properties().await?, is_connected().await?,
\* properties.unwrap(), the name, and the test against the filter.  A match
\* goes to connect() when not connected, else to the second is_connected().
BleExamine ==
    /\ pc = "ble_peripheral"
    /\ periphs_left > 0
    /\ periphs_left' = periphs_left - 1
    /\ \/ /\ pc' \in {"exit1", "panic"}
          /\ UNCHANGED <<periph, ble_calls>>
       \/ \E adv \in AdvertisedNames, is_connected \in BOOLEAN :
             LET local_name == LocalName(adv)
             IN  /\ periph' = [name |-> local_name, connected |-> is_connected]
                 /\ ble_calls' = <<>>
                 /\ pc' = IF NameMatches(local_name)
                          THEN (IF ~is_connected THEN "ble_connect" ELSE "ble_check")
                          ELSE "ble_peripheral"
    /\ UNCHANGED <<opts, stdout, stderr, outVars, uartVars, adapters_left,
                   characteristics, connect_failed, stream, arrived>>

\* A plausible slip: the error of connect() returned with `?`.
BleConnectFatal ==
    /\ pc = "ble_connect"
    /\ ble_calls' = Append(ble_calls, "connect")
    /\ \E ok \in BOOLEAN :
          /\ pc' = IF ok THEN "ble_check" ELSE "exit1"
          /\ connect_failed' = (connect_failed \/ ~ok)
    /\ UNCHANGED <<opts, stdout, stderr, outVars, uartVars, adapters_left, periphs_left, periph,
                   characteristics, stream, arrived>>

\* peripheral.connect().await: on an error the peripheral is skipped
\* (continue).
BleConnect ==
    /\ pc = "ble_connect"
    /\ ble_calls' = Append(ble_calls, "connect")
    /\ \E ok \in BOOLEAN :
          /\ pc' = IF ok THEN "ble_check" ELSE "ble_peripheral"
          /\ connect_failed' = (connect_failed \/ ~ok)
    /\ UNCHANGED <<opts, stdout, stderr, outVars, uartVars, adapters_left, periphs_left, periph,
                   characteristics, stream, arrived>>

\* A plausible slip: the answer of the second is_connected() not tested.
BleCheckConnectedIgnored ==
    /\ pc = "ble_check"
    /\ \/ /\ pc' = "exit1"
          /\ UNCHANGED periph
       \/ \E is_connected \in BOOLEAN :
             /\ periph' = [periph EXCEPT !.connected = is_connected]
             /\ pc' = "ble_discover"
    /\ UNCHANGED <<opts, stdout, stderr, outVars, uartVars, adapters_left, periphs_left, ble_calls,
                   characteristics, connect_failed, stream, arrived>>

\* The second is_connected().await?; when it says false the code goes
\* straight to break 'adapter_loop and ble_mode returns Ok(()).
BleCheckConnected ==
    /\ pc = "ble_check"
    /\ \/ /\ pc' = "exit1"
          /\ UNCHANGED periph
       \/ \E is_connected \in BOOLEAN :
             /\ periph' = [periph EXCEPT !.connected = is_connected]
             /\ pc' = IF is_connected THEN "ble_discover" ELSE "done"
    /\ UNCHANGED <<opts, stdout, stderr, outVars, uartVars, adapters_left, periphs_left, ble_calls,
                   characteristics, connect_failed, stream, arrived>>

\* A plausible slip: the characteristic looked up by its identifier alone.
HasNotifyCharaUuidOnly(cs) ==
    \E c \in cs : c.uuid = NOTIFY_CHARACTERISTIC_UUID

\* characteristics.iter().find(|c| c.uuid == NOTIFY_CHARACTERISTIC_UUID
\*                                 && c.properties.contains(NOTIFY))
HasNotifyChara(cs) ==
    \E c \in cs : c.uuid = NOTIFY_CHARACTERISTIC_UUID /\ c.notify

\* discover_services().await?, then the search for the notify characteristic
\* (expect: none found panics).
BleDiscover ==
    /\ pc = "ble_discover"
    /\ ble_calls' = Append(ble_calls, "discover_services")
    /\ \/ /\ pc' = "exit1"
          /\ UNCHANGED characteristics
       \/ \E cs \in CharacteristicSets :
             /\ characteristics' = [some |-> TRUE, val |-> cs]
             /\ pc' = IF HasNotifyChara(cs) THEN "ble_subscribe" ELSE "panic"
    /\ UNCHANGED <<opts, stdout, stderr, outVars, uartVars, adapters_left, periphs_left,
                   periph, connect_failed, stream, arrived>>

\* subscribe(&notify_chara).await? and notifications().await?; the list of
\* characteristics is not used after this.
BleSubscribe ==
    /\ pc = "ble_subscribe"
    /\ ble_calls' = Append(ble_calls, "subscribe")
    /\ characteristics' = NoCharacteristics
    /\ pc' \in {"ble_stream", "exit1"}
    /\ UNCHANGED <<opts, stdout, stderr, outVars, uartVars, adapters_left, periphs_left, periph,
                   connect_failed, stream, arrived>>

\* The peripheral sends a notification: it joins the stream.
BleNotify ==
    /\ pc = "ble_stream"
    /\ Len(arrived) < MaxRecords
    /\ \E data \in Payloads :
          /\ stream' = Append(stream, data)
          /\ arrived' = Append(arrived, data)
    /\ UNCHANGED <<progVars, uartVars, adapters_left, periphs_left, periph, ble_calls,
                   characteristics, connect_failed>>

\* A plausible slip: the newest notification taken first.
StreamNextNewest(q) == [data |-> q[Len(q)], rest |-> SubSeq(q, 1, Len(q) - 1)]

\* notification_stream.next(): the oldest payload, and the stream without it.
StreamNext(q) == [data |-> Head(q), rest |-> Tail(q)]

\* One turn of the while-let loop: next() yields a payload,
\* String::from_utf8(..).unwrap() (panics on bytes that are not UTF-8), then
\* write_data(parse_data(str, opts), opts, writer).
BleNotification ==
    /\ pc = "ble_stream"
    /\ stream # <<>>
    /\ LET n == StreamNext(stream)
       IN  /\ stream' = n.rest
           /\ IF \E i \in 1..Len(n.data) : n.data[i] = BadByte
              THEN /\ pc' = "panic"
                   /\ UNCHANGED <<str, str_result, stdout, stderr, conv_calls, parsed,
                                  emitted, writer, logfile>>
              ELSE Handle(n.data, "ble_stream")
    /\ UNCHANGED <<opts, uartVars, adapters_left, periphs_left, periph, ble_calls,
                   characteristics, connect_failed, arrived>>

\* A plausible slip: after the stream the driver goes on with the next
\* peripheral.
BleStreamEndContinue ==
    /\ pc = "ble_stream"
    /\ stream = <<>>
    /\ ble_calls' = Append(ble_calls, "disconnect")
    /\ pc' \in {"ble_peripheral", "exit1"}
    /\ UNCHANGED <<opts, stdout, stderr, outVars, uartVars, adapters_left, periphs_left, periph,
                   characteristics, connect_failed, stream, arrived>>

\* A plausible slip: the scan ended without the disconnect.
BleStreamEndNoDisconnect ==
    /\ pc = "ble_stream"
    /\ stream = <<>>
    /\ pc' = "done"
    /\ UNCHANGED <<opts, stdout, stderr, outVars, uartVars, adapters_left, periphs_left, periph,
                   ble_calls, characteristics, connect_failed, stream, arrived>>

\* next() yields None (the stream has ended, which it may do whenever no
\* payload is waiting): the loop ends, peripheral.disconnect().await?, and
\* break 'adapter_loop.
BleStreamEnd ==
    /\ pc = "ble_stream"
    /\ stream = <<>>
    /\ ble_calls' = Append(ble_calls, "disconnect")
    /\ pc' \in {"done", "exit1"}
    /\ UNCHANGED <<opts, stdout, stderr, outVars, uartVars, adapters_left, periphs_left, periph,
                   characteristics, connect_failed, stream, arrived>>

\* ---------------------------------------------------------- specification
Next ==
    \/ MainDebug
    \/ MainStart
    \/ UartListPorts
    \/ UartOpen
    \/ DeviceSend
    \/ DeviceSendTail
    \/ UartRead
    \/ UartTimeout
    \/ BleInit
    \/ BleScan
    \/ BleReturn
    \/ BleNextAdapter
    \/ BleExamine
    \/ BleConnect
    \/ BleCheckConnected
    \/ BleDiscover
    \/ BleSubscribe
    \/ BleNotify
    \/ BleNotification
    \/ BleStreamEnd

Spec == Init /\ [][Next]_vars

\* ------------------------------------------- parse_data as a pure function
\* parse_data applied once to an input of ParseInputs.
InitParse ==
    /\ opts \in {o \in OptsSet : ~o.calc.some /\ ~o.mode_ble /\ ~o.uart_interface
                                 /\ ~o.output /\ ~o.verbose}
    /\ pc = "call"
    /\ str \in ParseInputs
    /\ str_result = <<>>
    /\ stdout = <<>>
    /\ stderr = <<>>
    /\ conv_calls = <<>>
    /\ parsed = <<>>
    /\ emitted = <<>>
    /\ writer = NoWriter
    /\ logfile = NoFile
    /\ port = [open |-> FALSE, rx |-> <<>>]
    /\ my_str = <<>>
    /\ line_tail = <<>>
    /\ sent = <<>>
    /\ adapters_left = 0
    /\ periphs_left = 0
    /\ periph = NoPeriph
    /\ ble_calls = <<>>
    /\ characteristics = NoCharacteristics
    /\ connect_failed = FALSE
    /\ stream = <<>>
    /\ arrived = <<>>

ParseCall ==
    /\ pc = "call"
    /\ LET r == parse_data(str, opts)
       IN  /\ pc' = IF r.panicked THEN "panic" ELSE "returned"
           /\ str_result' = IF r.panicked THEN str_result ELSE r.str_result
           /\ stdout' = stdout \o r.out
           /\ stderr' = stderr \o r.err
           /\ conv_calls' = conv_calls \o r.calcs
           /\ parsed' = Append(parsed, str)
    /\ UNCHANGED <<opts, str, emitted, writer, logfile, uartVars, bleVars>>

NextParse == ParseCall

ParseSpec == InitParse /\ [][NextParse]_vars

\* ---------------------------------- calc_shunt_current as a pure function
\* calc_shunt_current applied once to an ADC code (held in opts.calc) under a
\* configuration of ConvConfigs; the value returned is kept in str_result.
InitConv ==
    /\ opts \in { [calc |-> Some(c), mode_ble |-> FALSE, uart_interface |-> FALSE,
                   output |-> FALSE, verbose |-> FALSE, is_enable_4ch |-> FALSE,
                   cfg |-> a] : c \in 0..MaxDebugCode, a \in ConvConfigs }
    /\ pc = "convert"
    /\ InitRest

ConvCall ==
    /\ pc = "convert"
    /\ LET r == calc_shunt_current(F64(opts.calc.val), opts)
       IN  /\ pc' = "converted"
           /\ conv_calls' = Append(conv_calls, F64(opts.calc.val))
           /\ str_result' = <<r.i_sr>>
           /\ stdout' = stdout \o r.out
    /\ UNCHANGED <<opts, str, stderr, parsed, emitted, writer, logfile, uartVars, bleVars>>

NextConv == ConvCall

ConvSpec == InitConv /\ [][NextConv]_vars

\* ------------------------------------------------------------ properties
\* The number of comma-separated fields of a record: its commas, plus one.
NumFields(s) == Cardinality({i \in 1..Len(s) : s[i] = ","}) + 1

\* Field i (from 0) of a record, and whether it reads as a number.
FieldOf(s, i) == Split(s, ",")[i + 1]
Numeric(s, i) == ParseF64(Trim(FieldOf(s, i))).ok
CodeOf(s, i) == ParseF64(Trim(FieldOf(s, i))).val
Current(s, i) == calc_shunt_current(CodeOf(s, i), opts).i_sr

\* The parser reads a field of the record as an ADC code and the field is
\* not a number: field 1 of a record of 2 fields or more, or, in 4-channel
\* mode, one of fields 2..4 of a record of 5 fields or more.
Malformed(s) ==
    \/ NumFields(s) >= 2 /\ ~Numeric(s, 1)
    \/ opts.is_enable_4ch /\ NumFields(s) >= 5 /\ \E i \in 2..4 : ~Numeric(s, i)

Last(q) == q[Len(q)]
SinkLines(out) == SelectSeq(out, LAMBDA l : l[1] = "sink")
Streaming == ~opts.calc.some
InLoop == pc \in {"uart_loop", "ble_stream"}

\* C1: a record of fewer than 2 fields, in either channel mode, makes
\* parse_data report "index error" and return without a single call of
\* calc_shunt_current.
C1_TooFewFields ==
    (pc # "call" /\ NumFields(str) < 2)
        => /\ pc = "returned"
           /\ stderr = <<Line("index error", <<>>)>>
           /\ conv_calls = <<>>
           /\ str_result = <<>>

C1_Witness ==
    /\ pc = "returned"
    /\ NumFields(str) < 2
    /\ str # <<>>
    /\ opts.is_enable_4ch
    /\ stderr # <<>>

\* C2: in the streaming modes a record of fewer than 2 fields produces no
\* output: handling it adds no line of the sink to the console and no entry
\* to the log file, whatever verbose and the writer are.
C2_ShortRecordNoOutput ==
    [][(Streaming /\ Len(parsed') = Len(parsed) + 1 /\ NumFields(Last(parsed')) < 2)
          => /\ SinkLines(stdout') = SinkLines(stdout)
             /\ logfile' = logfile]_vars

\* C3: a record of fewer than 2 fields is not fatal in either driver: the
\* step that handles it leaves the driver in its loop with its writer, and
\* the well-formed record handled next is converted and emitted as
\* parse_data and write_data do for that record alone.
C3_ShortRecordNonFatal ==
    [][(Streaming /\ Len(parsed') = Len(parsed) + 1)
          => LET r == Last(parsed')
             IN  /\ NumFields(r) < 2
                      => /\ InLoop /\ pc' = pc
                         /\ writer'.some = writer.some
                         /\ conv_calls' = conv_calls
                         /\ Len(emitted') = Len(parsed')
                 /\ (parsed # <<>> /\ NumFields(Last(parsed)) < 2
                       /\ NumFields(r) >= 2 /\ ~Malformed(r))
                      => /\ InLoop /\ pc' = pc
                         /\ emitted' = Append(emitted, parse_data(r, opts).str_result)
                         /\ Len(emitted'[Len(emitted')]) = IF opts.is_enable_4ch /\ NumFields(r) >= 5
                                                          THEN 5 ELSE 2
                         /\ writer.some => logfile'.lines = Append(logfile.lines, Last(emitted'))
                         /\ opts.verbose =>
                               SinkLines(stdout') = Append(SinkLines(stdout), Line("sink", Last(emitted')))
            ]_vars

C3_Witness ==
    /\ InLoop
    /\ Len(parsed) = 2
    /\ NumFields(parsed[1]) < 2
    /\ NumFields(parsed[2]) >= 2 /\ ~Malformed(parsed[2])
    /\ Len(emitted) = 2
    /\ emitted[2] # <<>>

\* C4, as claimed: in 4-channel mode every record of fewer than 5 fields
\* gives exactly 1 converted value and the diagnostic, and no hard failure.
C4_PartialAsClaimed ==
    (pc # "call" /\ opts.is_enable_4ch /\ NumFields(str) < 5)
        => /\ pc = "returned"
           /\ Len(conv_calls) = 1
           /\ Len(str_result) = 2
           /\ stdout # <<>> /\ Last(stdout) = Line("ch2~4 val error", <<>>)

\* C4, amended: in 4-channel mode every record of 2 to 4 fields whose field 1
\* is a number gives exactly 1 converted value, that of field 1, and the
\* diagnostic "ch2~4 val error", and parse_data returns.
C4_PartialResult ==
    (pc # "call" /\ opts.is_enable_4ch /\ NumFields(str) \in 2..4 /\ Numeric(str, 1))
        => /\ pc = "returned"
           /\ conv_calls = <<CodeOf(str, 1)>>
           /\ str_result = <<CodeOf(str, 1), Current(str, 1)>>
           /\ stdout # <<>> /\ Last(stdout) = Line("ch2~4 val error", <<>>)

C4_Witness ==
    /\ pc = "returned"
    /\ opts.is_enable_4ch
    /\ NumFields(str) = 4
    /\ Len(str_result) = 2
    /\ Last(stdout) = Line("ch2~4 val error", <<>>)

\* C5: in 4-channel mode a record of 5 fields or more with numeric fields 1
\* to 4 gives the code of field 1 followed by exactly the 4 values converted
\* from fields 1, 2, 3, 4 in that order; with 4-channel mode off a record
\* with a numeric field 1 gives the code and exactly the 1 value of field 1,
\* however many fields follow.
C5_ChannelOrder ==
    pc # "call" =>
        /\ (opts.is_enable_4ch /\ NumFields(str) >= 5 /\ \A i \in 1..4 : Numeric(str, i))
              => /\ pc = "returned"
                 /\ conv_calls = [i \in 1..4 |-> CodeOf(str, i)]
                 /\ str_result = <<CodeOf(str, 1)>> \o [i \in 1..4 |-> Current(str, i)]
        /\ (~opts.is_enable_4ch /\ NumFields(str) >= 2 /\ Numeric(str, 1))
              => /\ pc = "returned"
                 /\ conv_calls = <<CodeOf(str, 1)>>
                 /\ str_result = <<CodeOf(str, 1), Current(str, 1)>>

C5_Witness ==
    /\ pc = "returned"
    /\ opts.is_enable_4ch
    /\ NumFields(str) = 6
    /\ conv_calls = <<F64(1), F64(2), F64(3), F64(4)>>
    /\ Len(str_result) = 5

\* C6: a record with a malformed ADC field aborts the process, also in the
\* middle of a stream: it is the last record ever given to the parser, and
\* the sink has printed and logged nothing for it, so the console and the log
\* hold one entry for each record before it and none for it.
C6_MalformedAborts ==
    \A i \in 1..Len(parsed) :
        Malformed(parsed[i])
            => /\ i = Len(parsed)
               /\ pc = "panic"
               /\ Len(emitted) = i - 1
               /\ writer.some => Len(logfile.lines) = i - 1 /\ writer.buf = <<>>
               /\ opts.verbose => Len(SinkLines(stdout)) = i - 1
               /\ ~opts.verbose => SinkLines(stdout) = <<>>

C6_Witness ==
    /\ pc = "panic"
    /\ Len(parsed) = 2
    /\ Malformed(parsed[2])
    /\ Numeric(parsed[2], 1)
    /\ Len(conv_calls) >= 3
    /\ writer.some /\ opts.verbose
    /\ Len(logfile.lines) = 1

\* C7: with a log writer, every call of the sink appends exactly one entry
\* behind the entries the file has, and leaves nothing in the writer's
\* buffer: after every step the file holds exactly the emitted strings, in
\* the order of emission, be the driver waiting or the process aborted.
C7_LogAppendFlush ==
    [][writer'.some
          => /\ writer'.buf = <<>>
             /\ logfile'.exists
             /\ logfile'.lines = emitted'
             /\ IF Len(emitted') = Len(emitted) + 1
                THEN logfile'.lines = Append(logfile.lines, Last(emitted'))
                ELSE logfile'.lines = logfile.lines]_vars

C7_Witness ==
    /\ writer.some
    /\ pc = "panic"
    /\ Len(parsed) = 2
    /\ logfile.lines = <<parse_data(parsed[1], opts).str_result>>
    /\ logfile.lines[1] # <<>>

\* C8: in BLE mode the notifications are handled first in, first out, one at
\* a time: the payloads not yet taken are the newest arrivals, the records
\* given to the parser are the older arrivals, each once, whole and in
\* arrival order (all of them, but for a last one that was not UTF-8 and
\* aborted the process), and the emitted entries are their results in that
\* order, complete for every record parsed unless the last one aborted.
C8_NotificationFifo ==
    (opts.mode_ble /\ Streaming)
        => LET k == Len(arrived) - Len(stream)
           IN  /\ k >= 0
               /\ stream = SubSeq(arrived, k + 1, Len(arrived))
               /\ \/ parsed = SubSeq(arrived, 1, k)
                  \/ /\ pc = "panic" /\ k > 0
                     /\ \E j \in 1..Len(arrived[k]) : arrived[k][j] = BadByte
                     /\ parsed = SubSeq(arrived, 1, k - 1)
               /\ \/ Len(emitted) = Len(parsed)
                  \/ pc = "panic" /\ Len(emitted) = Len(parsed) - 1
               /\ \A i \in 1..Len(emitted) :
                     emitted[i] = parse_data(arrived[i], opts).str_result

C8_Witness ==
    /\ opts.mode_ble
    /\ pc = "ble_stream"
    /\ stream = <<>>
    /\ Len(arrived) = 2
    /\ Len(emitted) = 2
    /\ emitted[1] # emitted[2]

\* C9: a peripheral whose name (the placeholder when none is advertised)
\* does not contain the filter string is skipped: no connect, service
\* discovery, subscribe or disconnect is issued on it, the driver is in none
\* of the steps that handle a peripheral, and the step that examined it
\* leaves the driver at the head of the peripheral loop of the same adapter.
C9_NonMatchSkipped ==
    /\ [](~Contains(periph.name, PERIPHERAL_NAME_MATCH_FILTER)
            => /\ ble_calls = <<>>
               /\ pc \notin {"ble_connect", "ble_check", "ble_discover",
                             "ble_subscribe", "ble_stream"})
    /\ [][(periphs_left' = periphs_left - 1 /\ pc' \notin {"exit1", "panic"}
             /\ ~Contains(periph'.name, PERIPHERAL_NAME_MATCH_FILTER))
            => /\ pc' = "ble_peripheral"
               /\ adapters_left' = adapters_left
               /\ ble_calls' = <<>>]_vars

C9_Witness ==
    /\ pc = "ble_peripheral"
    /\ periph.name # <<>>
    /\ periph.name # UnknownPeripheral
    /\ ~Contains(periph.name, PERIPHERAL_NAME_MATCH_FILTER)
    /\ Contains(periph.name, <<"M", "5", "A", "t", "o", "m">>)
    /\ periphs_left > 0

\* C10: with a debug ADC code the process converts once, the record
\* "debug, <code>" of two fields whose code is the one given, prints the
\* result and exits with status 0, whatever the other flags: it enters no
\* driver, opens no port, touches no adapter or peripheral, and there is no
\* writer and no log file.
C10_DebugOnly ==
    opts.calc.some
        => /\ pc \in {"main", "exit0"}
           /\ pc = "exit0"
                => /\ Len(parsed) = 1
                   /\ NumFields(parsed[1]) = 2
                   /\ conv_calls = <<F64(opts.calc.val)>>
                   /\ str_result = <<F64(opts.calc.val),
                                     calc_shunt_current(F64(opts.calc.val), opts).i_sr>>
                   /\ Last(stdout) = Line("shunt current:", str_result)
           /\ ~port.open /\ port.rx = <<>> /\ sent = <<>>
           /\ adapters_left = 0 /\ periphs_left = 0 /\ periph = NoPeriph
           /\ ble_calls = <<>> /\ arrived = <<>>
           /\ ~writer.some /\ ~logfile.exists /\ emitted = <<>>

C10_Witness ==
    /\ pc = "exit0"
    /\ opts.calc.some
    /\ opts.calc.val >= 10
    /\ opts.mode_ble /\ opts.uart_interface /\ opts.output /\ opts.is_enable_4ch
    /\ opts.verbose
    /\ Len(conv_calls) = 1

\* C11: a serial run without an interface identifier that has begun the port
\* listing ends with status 0, with no port opened, no record parsed and no
\* record emitted; it never ends in a panic or with another status.
C11_ListPortsExitsZero ==
    (Streaming /\ ~opts.mode_ble /\ ~opts.uart_interface /\ stdout # <<>>)
        => /\ pc = "exit0"
           /\ ~port.open
           /\ parsed = <<>>
           /\ emitted = <<>>

\* The lines calc_shunt_current itself prints.
ConvLines(out) == SelectSeq(out, LAMBDA l : l[1] \in {"adc =>", "ch1 =>"})

\* C12: calc_shunt_current produces no output of its own: standard output
\* never holds a line printed by the conversion.
C12_ConversionSilent == ConvLines(stdout) = <<>>

\* The formula as the claim groups it, every operation rounded:
\* ((v_max * code / (2^(bits-1) - 1)) * (r_lower + r_upper) / r_lower - v_ref)
\*   / gain / (shunt_milliohms * 1000).
ConvFormulaClaimed(code, a) ==
    LET v_adc == FDiv(FMul(a.adc_max_voltage, code), F64(Pow2(a.adc_bit - 1) - 1))
        v_amp_out == FDiv(FMul(v_adc, FAdd(a.lower_resistance, a.upper_resistance)),
                          a.lower_resistance)
    IN  FDiv(FDiv(FSub(v_amp_out, a.refference_voltage), a.gain_amp),
             FMul(a.shunt_registance, F64(1000)))

\* The same formula with the divider ratio taken first:
\* ((v_max * code / (2^(bits-1) - 1)) * ((r_lower + r_upper) / r_lower) - v_ref)
\*   / gain / (shunt_milliohms * 1000).
ConvFormula(code, a) ==
    LET v_adc == FDiv(FMul(a.adc_max_voltage, code), F64(Pow2(a.adc_bit - 1) - 1))
        v_amp_out == FMul(v_adc, FDiv(FAdd(a.lower_resistance, a.upper_resistance),
                                      a.lower_resistance))
    IN  FDiv(FDiv(FSub(v_amp_out, a.refference_voltage), a.gain_amp),
             FMul(a.shunt_registance, F64(1000)))

\* The value for code 0: -v_ref / gain / (shunt_milliohms * 1000).
ConvOffset(a) ==
    FDiv(FDiv(FNeg(a.refference_voltage), a.gain_amp),
         FMul(a.shunt_registance, F64(1000)))

\* C13 as stated: the value calc_shunt_current returns is the value of the
\* formula with (r_lower + r_upper) multiplied in before the division by
\* r_lower.
C13_FormulaAsClaimed ==
    pc = "converted"
        => str_result = <<ConvFormulaClaimed(F64(opts.calc.val), opts.cfg)>>

\* C13: the value calc_shunt_current returns for a code and a configuration
\* is the value of the formula in which v_adc is multiplied by the quotient
\* (r_lower + r_upper) / r_lower, and for code 0 it is the offset
\* -v_ref / gain / (shunt_milliohms * 1000) whatever v_max, bits and the
\* divider resistors are.
C13_ConversionFormula ==
    pc = "converted"
        => /\ str_result = <<ConvFormula(F64(opts.calc.val), opts.cfg)>>
           /\ opts.calc.val = 0 => str_result = <<ConvOffset(opts.cfg)>>

C13_Witness ==
    /\ pc = "converted"
    /\ opts.calc.val > 0
    /\ str_result = <<ConvFormula(F64(opts.calc.val), opts.cfg)>>
    /\ str_result # <<ConvFormulaClaimed(F64(opts.calc.val), opts.cfg)>>

\* C14: in a serial run the records handed to parse_data are the lines the
\* sender has transmitted, whole and in order, and once every byte sent has
\* been read none is missing.
C14_EveryLineParsed ==
    (Streaming /\ ~opts.mode_ble /\ port.open)
        => /\ Len(parsed) <= Len(sent)
           /\ \A i \in 1..Len(parsed) : parsed[i] = sent[i]
           /\ (pc = "uart_loop" /\ port.rx = <<>> /\ line_tail = <<>> /\ my_str = <<>>)
                 => parsed = sent

\* C15: the read loop of uart_mode is never left by a return: from the loop
\* the process stays in the loop or panics; and a read that finds no byte
\* panics at once, with no call of parse_data or write_data and nothing
\* printed or logged.
C15_ReadLoopLeftOnlyByAbort ==
    [][ pc = "uart_loop"
          => /\ pc' \in {"uart_loop", "panic"}
             /\ (port.rx = <<>> /\ port' = port)
                   => /\ pc' = "panic"
                      /\ parsed' = parsed
                      /\ emitted' = emitted
                      /\ stdout' = stdout
                      /\ writer' = writer
                      /\ logfile' = logfile ]_vars

C15_Witness ==
    /\ pc = "panic"
    /\ port.open
    /\ port.rx = <<>>
    /\ my_str # <<>>
    /\ Len(parsed) = 1
    /\ Len(emitted) = 1

\* ------------------------------------------------------ ble_mode, in order
\* The calls on a peripheral in the order of the driver, with and without
\* the connect.
CallOrder == <<"connect", "discover_services", "subscribe", "disconnect">>
IsPrefix(p, q) == Len(p) <= Len(q) /\ SubSeq(q, 1, Len(p)) = p
Issued(call) == \E i \in 1..Len(ble_calls) : ble_calls[i] = call
Issues(call) == ble_calls' = Append(ble_calls, call)

\* The places of ble_mode, numbered in the order the driver goes through them.
Stage(p) ==
    CASE p = "ble_init" -> 0
      [] p = "ble_adapter" -> 1
      [] p = "ble_peripheral" -> 2
      [] p = "ble_connect" -> 3
      [] p = "ble_check" -> 4
      [] p = "ble_discover" -> 5
      [] p = "ble_subscribe" -> 6
      [] p = "ble_stream" -> 7
      [] OTHER -> 8
Handling == pc \in {"ble_connect", "ble_check", "ble_discover", "ble_subscribe", "ble_stream"}
BleRun == opts.mode_ble /\ Streaming

\* C16: the calls on the handled peripheral come in the order connect,
\* discovery, subscribe, disconnect, the connect being left out exactly when
\* the peripheral was connected already; handling a peripheral only moves
\* forward (or back to the list after a failed connect), and it starts after
\* the scan and the listing; subscribe is issued only on a peripheral that
\* is connected and whose list of characteristics holds the notify
\* characteristic; a record is parsed or emitted only between subscribe and
\* disconnect.
C16_EventOrder ==
    /\ [](BleRun => \/ IsPrefix(ble_calls, CallOrder)
                    \/ IsPrefix(ble_calls, Tail(CallOrder)))
    /\ [][ BleRun =>
             /\ Issues("connect") => ~periph.connected /\ ble_calls = <<>>
             /\ (pc = "ble_check" /\ ~Issued("connect")) => periph.connected
             /\ Handling => \/ Stage(pc') >= Stage(pc)
                            \/ pc = "ble_connect" /\ pc' = "ble_peripheral"
             /\ (~Handling /\ pc # "ble_peripheral") => pc' \notin {"ble_connect", "ble_check"}
             /\ Issues("subscribe")
                   => /\ periph.connected
                      /\ characteristics.some
                      /\ \E c \in characteristics.val :
                            c.uuid = NOTIFY_CHARACTERISTIC_UUID /\ c.notify
             /\ (parsed' # parsed \/ emitted' # emitted)
                   => Issued("subscribe") /\ ~Issued("disconnect") ]_vars

C16_Witness ==
    /\ pc = "done"
    /\ ble_calls = CallOrder
    /\ Len(emitted) = MaxRecords

\* C17: when the second is_connected() has been reached for a matching
\* peripheral, the driver never goes back to the list of peripherals or of
\* adapters and examines no other peripheral; subscribe is issued at most
\* once; and after ble_mode has ended nothing more happens.
C17_OneShot ==
    /\ [](BleRun => Cardinality({i \in 1..Len(ble_calls) : ble_calls[i] = "subscribe"}) <= 1)
    /\ [][ BleRun =>
             /\ pc \in {"ble_check", "ble_discover", "ble_subscribe", "ble_stream"}
                   => /\ pc' \notin {"ble_init", "ble_adapter", "ble_peripheral", "ble_connect"}
                      /\ adapters_left' = adapters_left
                      /\ periphs_left' = periphs_left
                      /\ periph'.name = periph.name
                      /\ ~Issues("connect")
             /\ Issued("subscribe") => ~Issues("subscribe")
             /\ pc \in Final => UNCHANGED vars ]_vars

C17_Witness ==
    /\ pc = "done"
    /\ Issued("disconnect")
    /\ periphs_left > 0
    /\ adapters_left > 0
    /\ Len(emitted) >= 1

\* C18 as stated: whenever the driver ends the scan at break 'adapter_loop
\* for a matching peripheral, a disconnect has been issued on it.
C18_DisconnectAlways ==
    [][ (BleRun /\ Handling /\ pc' = "done") => Issued("disconnect")' ]_vars

\* C18: when the driver ends the scan after the notification stream of the
\* peripheral has ended, it has issued the disconnect as its last call; when
\* it ends the scan because the second is_connected() said false, it issues
\* no call at all.
C18_DisconnectAfterStream ==
    [][ BleRun =>
          /\ (pc = "ble_stream" /\ pc' \notin {"ble_stream", "panic"})
                => /\ Issues("disconnect")
                   /\ pc' \in {"done", "exit1"}
          /\ (pc = "ble_check" /\ pc' = "done")
                => /\ ~periph'.connected
                   /\ ble_calls' = ble_calls
                   /\ ~Issued("disconnect") ]_vars

C18_Witness ==
    /\ pc = "done"
    /\ Issued("subscribe")
    /\ Last(ble_calls) = "disconnect"
    /\ ~Issued("connect")
    /\ arrived = <<>>

\* C19: a connect() that fails puts the driver back at the list of
\* peripherals with the same peripherals and adapters still to visit, with
\* no other call on that peripheral, then or later, and with no abort.
C19_ConnectFailureLocal ==
    [][ BleRun =>
          /\ (pc = "ble_connect" /\ pc' # "ble_check")
                => /\ pc' = "ble_peripheral"
                   /\ ble_calls' = <<"connect">>
                   /\ connect_failed'
                   /\ periphs_left' = periphs_left
                   /\ adapters_left' = adapters_left
          /\ (pc \in {"ble_peripheral", "ble_adapter"} /\ ble_calls = <<"connect">>)
                => ble_calls' \in {ble_calls, <<>>} ]_vars

C19_Witness ==
    /\ pc = "ble_stream"
    /\ connect_failed
    /\ Issued("connect")
    /\ Issued("subscribe")
    /\ Len(emitted) >= 1
    /\ adapters_left = 0

\* C20: when the list of characteristics of the connected peripheral holds
\* none with both the notify UUID and the NOTIFY flag, the process has
\* panicked, with no subscribe, no record parsed or emitted, and the lists
\* of peripherals and adapters as they were.
C20_NoNotifyCharaAborts ==
    (BleRun /\ characteristics.some
       /\ ~\E c \in characteristics.val : c.uuid = NOTIFY_CHARACTERISTIC_UUID /\ c.notify)
        => /\ pc = "panic"
           /\ ~Issued("subscribe")
           /\ Last(ble_calls) = "discover_services"
           /\ parsed = <<>>
           /\ emitted = <<>>

C20_Witness ==
    /\ pc = "panic"
    /\ characteristics.some
    /\ characteristics.val = {[uuid |-> NOTIFY_CHARACTERISTIC_UUID, notify |-> FALSE],
                              [uuid |-> OtherUuid, notify |-> TRUE]}
    /\ periphs_left > 0
    /\ adapters_left > 0

====
